---------------------------- MODULE Spec2Model ----------------------------
(***************************************************************************)
(* A model of the Telegram URL shortener bot of src/bot.py: URL            *)
(* validation, the short-id cache, the four shortening adapters, the       *)
(* single and all-services dispatch and the update handlers.               *)
(*                                                                         *)
(* Python strings are TLA+ strings; a character is a string of length 1.   *)
(***************************************************************************)
EXTENDS Integers, Sequences, FiniteSets, TLC

(***************************************************************************)
(* Python str primitives                                                   *)
(***************************************************************************)
LowerChars == "abcdefghijklmnopqrstuvwxyz"
UpperChars == "ABCDEFGHIJKLMNOPQRSTUVWXYZ"
DigitChars == "0123456789"
\* The characters of code 32..95 and of code 97..126, each in code order.
Chars32to95 == " !\"#$%&'()*+,-./0123456789:;<=>?@ABCDEFGHIJKLMNOPQRSTUVWXYZ[\\]^_"
Chars97to126 == "abcdefghijklmnopqrstuvwxyz{|}~"

Char(s, i) == SubSeq(s, i, i)

InChars(ch, chars) == \E i \in 1..Len(chars) : Char(chars, i) = ch

IndexIn(ch, chars) == CHOOSE i \in 1..Len(chars) : Char(chars, i) = ch

IsUpper(ch) == InChars(ch, UpperChars)
IsLower(ch) == InChars(ch, LowerChars)
IsDigit(ch) == InChars(ch, DigitChars)
IsAlpha(ch) == IsUpper(ch) \/ IsLower(ch)
IsAlnum(ch) == IsAlpha(ch) \/ IsDigit(ch)
\* str.isspace for the ASCII characters
IsSpace(ch) == ch \in {" ", "\t", "\n", "\r", "\f"}

lower_char(ch) == IF IsUpper(ch) THEN Char(LowerChars, IndexIn(ch, UpperChars)) ELSE ch
upper_char(ch) == IF IsLower(ch) THEN Char(UpperChars, IndexIn(ch, LowerChars)) ELSE ch

RECURSIVE lower(_)
lower(s) == IF s = "" THEN "" ELSE lower_char(Char(s, 1)) \o lower(SubSeq(s, 2, Len(s)))

\* str.capitalize(): first character upper-cased, the rest lower-cased
capitalize(s) == IF s = "" THEN "" ELSE upper_char(Char(s, 1)) \o lower(SubSeq(s, 2, Len(s)))

\* s.startswith(prefix)
startswith(s, prefix) == Len(s) >= Len(prefix) /\ SubSeq(s, 1, Len(prefix)) = prefix

RECURSIVE lstrip(_)
lstrip(s) == IF s # "" /\ IsSpace(Char(s, 1)) THEN lstrip(SubSeq(s, 2, Len(s))) ELSE s

RECURSIVE rstrip(_)
rstrip(s) == IF s # "" /\ IsSpace(Char(s, Len(s))) THEN rstrip(SubSeq(s, 1, Len(s) - 1)) ELSE s

\* s.strip()
strip(s) == rstrip(lstrip(s))

\* sub in s
contains(s, sub) == \E i \in 1..(Len(s) - Len(sub) + 1) : SubSeq(s, i, i + Len(sub) - 1) = sub

\* ' '.join(args)
RECURSIVE join_space(_)
join_space(args) ==
    IF args = <<>> THEN ""
    ELSE IF Len(args) = 1 THEN args[1]
    ELSE args[1] \o " " \o join_space(Tail(args))

\* s.find(ch, start): the first index >= start of ch in s, 0 when there is none
find_char(s, ch, start) ==
    IF \E i \in start..Len(s) : Char(s, i) = ch
    THEN CHOOSE i \in start..Len(s) : Char(s, i) = ch /\ \A j \in start..(i - 1) : Char(s, j) # ch
    ELSE 0

\* s.split(sep, 2): at most three parts, cut at the first two separators
split2(s, sep) ==
    LET a == find_char(s, sep, 1)
        b == IF a = 0 THEN 0 ELSE find_char(s, sep, a + 1)
    IN  IF a = 0 THEN <<s>>
        ELSE IF b = 0 THEN <<SubSeq(s, 1, a - 1), SubSeq(s, a + 1, Len(s))>>
        ELSE <<SubSeq(s, 1, a - 1), SubSeq(s, a + 1, b - 1), SubSeq(s, b + 1, Len(s))>>

(***************************************************************************)
(* is_valid_url: the regular expression of bot.py, matched from the start  *)
(* of the string with re.IGNORECASE.  Each Ends operator gives the set of  *)
(* positions (index of the next unread character) at which the sub-pattern *)
(* can stop when started at position p.                                    *)
(***************************************************************************)

\* a literal, compared ignoring case
LitEnds(s, p, lit) ==
    IF p + Len(lit) - 1 <= Len(s) /\ lower(SubSeq(s, p, p + Len(lit) - 1)) = lit
    THEN {p + Len(lit)} ELSE {}

\* ^https?://
SchemeEnds(s) ==
    UNION {LitEnds(s, q, "://") : q \in LitEnds(s, 1, "http") \cup LitEnds(s, 1, "https")}

\* [A-Z0-9](?:[A-Z0-9-]{0,61}[A-Z0-9])?
LabelEnds(s, p) ==
    IF p > Len(s) \/ ~IsAlnum(Char(s, p)) THEN {}
    ELSE {p + 1} \cup
         {e + 1 : e \in {x \in (p + 1)..Len(s) :
                           /\ x - p - 1 <= 61
                           /\ IsAlnum(Char(s, x))
                           /\ \A j \in (p + 1)..(x - 1) : IsAlnum(Char(s, j)) \/ Char(s, j) = "-"}}

\* label followed by \.
LabelDotEnds(s, p) == UNION {LitEnds(s, q, ".") : q \in LabelEnds(s, p)}

\* (?:label\.)+ : one or more repetitions, started at any position of P
RECURSIVE LabelsPlus(_, _)
LabelsPlus(s, P) ==
    LET Q == UNION {LabelDotEnds(s, p) : p \in P}
    IN  IF Q = {} THEN {} ELSE Q \cup LabelsPlus(s, Q)

\* [A-Z]{2,6}
TldEnds(s, p) ==
    {p + n : n \in {m \in 2..6 : p + m - 1 <= Len(s) /\ \A j \in p..(p + m - 1) : IsAlpha(Char(s, j))}}

\* \.?
OptDotEnds(s, p) == {p} \cup LitEnds(s, p, ".")

\* (?:[A-Z0-9](?:[A-Z0-9-]{0,61}[A-Z0-9])?\.)+[A-Z]{2,6}\.?
DomainEnds(s, p) ==
    UNION {OptDotEnds(s, t) : t \in UNION {TldEnds(s, q) : q \in LabelsPlus(s, {p})}}

\* \d{1,3}
Digits13Ends(s, p) ==
    {p + n : n \in {m \in 1..3 : p + m - 1 <= Len(s) /\ \A j \in p..(p + m - 1) : IsDigit(Char(s, j))}}

\* \d{1,3}\.\d{1,3}\.\d{1,3}\.\d{1,3}
IpEnds(s, p) ==
    LET OctetDot(P) == UNION {LitEnds(s, q, ".") : q \in UNION {Digits13Ends(s, x) : x \in P}}
    IN  UNION {Digits13Ends(s, x) : x \in OctetDot(OctetDot(OctetDot({p})))}

\* domain | localhost | ip
HostEnds(s, p) == DomainEnds(s, p) \cup LitEnds(s, p, "localhost") \cup IpEnds(s, p)

\* (?::\d+)?
PortEnds(s, p) ==
    {p} \cup UNION {{e \in (q + 1)..(Len(s) + 1) : \A j \in q..(e - 1) : IsDigit(Char(s, j))}
                      : q \in LitEnds(s, p, ":")}

\* (?:/?|[/?]\S+)
PathEnds(s, p) ==
    {p} \cup LitEnds(s, p, "/")
        \cup UNION {{e \in (q + 1)..(Len(s) + 1) : \A j \in q..(e - 1) : ~IsSpace(Char(s, j))}
                      : q \in LitEnds(s, p, "/") \cup LitEnds(s, p, "?")}

\* $ : the end of the string, or just before a newline that ends it
AtEnd(s, p) == p = Len(s) + 1 \/ (p = Len(s) /\ Char(s, p) = "\n")

is_valid_url(url) ==
    \E a \in SchemeEnds(url) : \E b \in HostEnds(url, a) :
        \E c \in PortEnds(url, b) : \E d \in PathEnds(url, c) : AtEnd(url, d)

(***************************************************************************)
(* generate_url_id: hashlib.md5(url.encode()).hexdigest()[:8].  MD5 (RFC   *)
(* 1321) over the bytes of the string; a 32-bit word is the pair           *)
(* <<high 16 bits, low 16 bits>>, so that no sum leaves the integers TLC   *)
(* computes with.                                                          *)
(***************************************************************************)
Two16 == 65536

\* str.encode(): the byte of a character (ASCII, where UTF-8 is one byte)
ord(ch) ==
    IF InChars(ch, Chars32to95) THEN 31 + IndexIn(ch, Chars32to95)
    ELSE IF InChars(ch, Chars97to126) THEN 96 + IndexIn(ch, Chars97to126)
    ELSE IF ch = "\t" THEN 9
    ELSE IF ch = "\n" THEN 10
    ELSE IF ch = "\f" THEN 12
    ELSE 13

encode(s) == [i \in 1..Len(s) |-> ord(Char(s, i))]

RECURSIVE BitAnd(_, _)
BitAnd(a, b) ==
    IF a = 0 \/ b = 0 THEN 0
    ELSE (a % 2) * (b % 2) + 2 * BitAnd(a \div 2, b \div 2)

BitOr(a, b) == a + b - BitAnd(a, b)
BitXor(a, b) == a + b - 2 * BitAnd(a, b)
BitNot16(a) == (Two16 - 1) - a

And32(x, y) == <<BitAnd(x[1], y[1]), BitAnd(x[2], y[2])>>
Or32(x, y) == <<BitOr(x[1], y[1]), BitOr(x[2], y[2])>>
Xor32(x, y) == <<BitXor(x[1], y[1]), BitXor(x[2], y[2])>>
Not32(x) == <<BitNot16(x[1]), BitNot16(x[2])>>

\* addition modulo 2^32
Add32(x, y) ==
    LET lo == x[2] + y[2]
    IN  <<(x[1] + y[1] + (lo \div Two16)) % Two16, lo % Two16>>

RECURSIVE Pow2(_)
Pow2(n) == IF n = 0 THEN 1 ELSE 2 * Pow2(n - 1)

\* rotation to the left by n bits, 0 < n < 32
LeftRotate(x, n) ==
    LET y == IF n >= 16 THEN <<x[2], x[1]>> ELSE x
        m == n % 16
    IN  IF m = 0 THEN y
        ELSE <<((y[1] * Pow2(m)) % Two16) + (y[2] \div Pow2(16 - m)),
               ((y[2] * Pow2(m)) % Two16) + (y[1] \div Pow2(16 - m))>>

\* floor(abs(sin(i + 1)) * 2^32), i = 0..63
MD5_K == <<
    <<55146, 42104>>, <<59591, 46934>>, <<9248, 28891>>, <<49597, 52974>>,
    <<62844, 4015>>, <<18311, 50730>>, <<43056, 17939>>, <<64838, 38145>>,
    <<27008, 39128>>, <<35652, 63407>>, <<65535, 23473>>, <<35164, 55230>>,
    <<27536, 4386>>, <<64920, 29075>>, <<42617, 17294>>, <<18868, 2081>>,
    <<63006, 9570>>, <<49216, 45888>>, <<9822, 23121>>, <<59830, 51114>>,
    <<54831, 4189>>, <<580, 5203>>, <<55457, 59009>>, <<59347, 64456>>,
    <<8673, 52710>>, <<49975, 2006>>, <<62677, 3463>>, <<17754, 5357>>,
    <<43491, 59653>>, <<64751, 41976>>, <<26479, 729>>, <<36138, 19594>>,
    <<65530, 14658>>, <<34673, 63105>>, <<28061, 24866>>, <<64997, 14348>>,
    <<42174, 59972>>, <<19422, 53161>>, <<63163, 19296>>, <<48831, 48240>>,
    <<10395, 32454>>, <<60065, 10234>>, <<54511, 12421>>, <<1160, 7429>>,
    <<55764, 53305>>, <<59099, 39397>>, <<8098, 31992>>, <<50348, 22117>>,
    <<62505, 8772>>, <<17194, 65431>>, <<43924, 9127>>, <<64659, 41017>>,
    <<25947, 22979>>, <<36620, 52370>>, <<65519, 62589>>, <<34180, 24017>>,
    <<28584, 32335>>, <<65068, 59104>>, <<41729, 17172>>, <<19976, 4513>>,
    <<63315, 32386>>, <<48442, 62005>>, <<10967, 53947>>, <<60294, 54161>> >>

\* the per-round shift amounts
MD5_S == <<
    7, 12, 17, 22, 7, 12, 17, 22, 7, 12, 17, 22, 7, 12, 17, 22,
    5, 9, 14, 20, 5, 9, 14, 20, 5, 9, 14, 20, 5, 9, 14, 20,
    4, 11, 16, 23, 4, 11, 16, 23, 4, 11, 16, 23, 4, 11, 16, 23,
    6, 10, 15, 21, 6, 10, 15, 21, 6, 10, 15, 21, 6, 10, 15, 21 >>

MD5_Init == << <<26437, 8961>>, <<61389, 43913>>, <<39098, 56574>>, <<4146, 21622>> >>

\* the message, a 1 bit, zeros up to 56 modulo 64 bytes, the bit length in 8 bytes
MD5_Pad(bytes) ==
    LET n == Len(bytes)
        zeros == (119 - n) % 64
        bits == 8 * n
    IN  bytes \o <<128>> \o [i \in 1..zeros |-> 0]
              \o <<bits % 256, (bits \div 256) % 256, (bits \div Two16) % 256, 0, 0, 0, 0, 0>>

\* word g (from 0) of chunk c (from 0), little-endian
MD5_Word(padded, c, g) ==
    LET b == 64 * c + 4 * g
    IN  <<padded[b + 4] * 256 + padded[b + 3], padded[b + 2] * 256 + padded[b + 1]>>

\* one round: the state <<A, B, C, D>> after round i (from 0) on chunk c
MD5_Round(st, padded, c, i) ==
    LET A == st[1]
        B == st[2]
        C == st[3]
        D == st[4]
        F == IF i < 16 THEN Or32(And32(B, C), And32(Not32(B), D))
             ELSE IF i < 32 THEN Or32(And32(D, B), And32(Not32(D), C))
             ELSE IF i < 48 THEN Xor32(B, Xor32(C, D))
             ELSE Xor32(C, Or32(B, Not32(D)))
        g == IF i < 16 THEN i
             ELSE IF i < 32 THEN (5 * i + 1) % 16
             ELSE IF i < 48 THEN (3 * i + 5) % 16
             ELSE (7 * i) % 16
        sum == Add32(Add32(F, A), Add32(MD5_K[i + 1], MD5_Word(padded, c, g)))
    IN  <<D, Add32(B, LeftRotate(sum, MD5_S[i + 1])), B, C>>

\* rounds i..j-1 (each round is computed, and bound as nx, before the next starts)
RECURSIVE MD5_RoundsFrom(_, _, _, _, _)
MD5_RoundsFrom(st, padded, c, i, j) ==
    IF i = j THEN st
    ELSE CHOOSE r \in {MD5_RoundsFrom(nx, padded, c, i + 1, j) : nx \in {MD5_Round(st, padded, c, i)}} : TRUE

\* the 64 rounds, in four passes of 16
MD5_Rounds(st, padded, c) ==
    LET p1 == MD5_RoundsFrom(st, padded, c, 0, 16)
        p2 == MD5_RoundsFrom(p1, padded, c, 16, 32)
        p3 == MD5_RoundsFrom(p2, padded, c, 32, 48)
    IN  MD5_RoundsFrom(p3, padded, c, 48, 64)

RECURSIVE MD5_Chunks(_, _, _)
MD5_Chunks(st, padded, c) ==
    IF 64 * c >= Len(padded) THEN st
    ELSE LET r == MD5_Rounds(st, padded, c)
         IN  MD5_Chunks(<<Add32(st[1], r[1]), Add32(st[2], r[2]),
                          Add32(st[3], r[3]), Add32(st[4], r[4])>>, padded, c + 1)

HexChars == "0123456789abcdef"
hex_byte(b) == Char(HexChars, (b \div 16) + 1) \o Char(HexChars, (b % 16) + 1)

\* the bytes of a word, little-endian, in hexadecimal
hex_word(x) ==
    hex_byte(x[2] % 256) \o hex_byte(x[2] \div 256) \o hex_byte(x[1] % 256) \o hex_byte(x[1] \div 256)

\* hashlib.md5(bytes).hexdigest()
md5_hexdigest(bytes) ==
    LET st == MD5_Chunks(MD5_Init, MD5_Pad(bytes), 0)
    IN  hex_word(st[1]) \o hex_word(st[2]) \o hex_word(st[3]) \o hex_word(st[4])

generate_url_id(url) == SubSeq(md5_hexdigest(encode(url)), 1, 8)


(***************************************************************************)
(* Python values.  A value is a record [t, v]: its type and its content.   *)
(* A dict holds a function from its keys to values.  The result of a       *)
(* piece of code is a record [kind, value]: "return" with the value, or    *)
(* "raise" with the name of the exception.                                 *)
(***************************************************************************)
PyNone == [t |-> "None", v |-> ""]
PyStr(s) == [t |-> "str", v |-> s]
PyInt(n) == [t |-> "int", v |-> n]
PyDict(f) == [t |-> "dict", v |-> f]
PyList(q) == [t |-> "list", v |-> q]
EmptyDict == PyDict(<<>>)

\* bool(x)
Truthy(x) ==
    CASE x.t = "None" -> FALSE
      [] x.t = "str" -> x.v # ""
      [] x.t = "int" -> x.v # 0
      [] x.t = "dict" -> DOMAIN x.v # {}
      [] x.t = "list" -> x.v # <<>>
      [] OTHER -> TRUE

Return(x) == [kind |-> "return", value |-> x]
Raise(e) == [kind |-> "raise", value |-> PyStr(e)]

\* the outcome of a piece of shorten_url and the requests it has made
Done(res, reqs) == [kind |-> res.kind, value |-> res.value, reqs |-> reqs]

\* d.get(key, default)
dict_get(d, key, default) ==
    IF d.t # "dict" THEN Raise("AttributeError")
    ELSE IF key \in DOMAIN d.v THEN Return(d.v[key])
    ELSE Return(default)

\* d[key]
subscript(d, key) ==
    IF d.t # "dict" THEN Raise("TypeError")
    ELSE IF key \in DOMAIN d.v THEN Return(d.v[key])
    ELSE Raise("KeyError")

\* a == literal, for a str or int literal
py_eq_str(x, s) == x.t = "str" /\ x.v = s
py_eq_int(x, n) == x.t = "int" /\ x.v = n

(***************************************************************************)
(* The requests library.  What the network gives back for one request is   *)
(* a record: exc (the call raised: connection error, timeout), or a        *)
(* response with its status_code, its text and what json() gives: a value, *)
(* or JsonError when the body is no JSON document.                         *)
(***************************************************************************)
JsonError == [t |-> "ValueError", v |-> ""]
NetRaises == [exc |-> TRUE, status_code |-> 0, text |-> "", json |-> JsonError]
HttpResponse(status, text, json) ==
    [exc |-> FALSE, status_code |-> status, text |-> text, json |-> json]

\* response.json()
response_json(r) == IF r.json.t = "ValueError" THEN Raise("ValueError") ELSE Return(r.json)

\* re.findall(r'https?://[^\s]+', text): the start of the first match, 0 for none
first_url_start(text) ==
    LET Starts == {i \in 1..Len(text) :
                     \E n \in {7, 8} :
                        /\ i + n <= Len(text)
                        /\ SubSeq(text, i, i + n - 1) \in {"http://", "https://"}
                        /\ ~IsSpace(Char(text, i + n))}
    IN  IF Starts = {} THEN 0 ELSE CHOOSE i \in Starts : \A j \in Starts : i <= j

\* the first match: from its start to the last character before a space
first_url(text) ==
    LET i == first_url_start(text)
        stops == {j \in i..Len(text) : IsSpace(Char(text, j))}
        e == IF stops = {} THEN Len(text) ELSE (CHOOSE j \in stops : \A k \in stops : j <= k) - 1
    IN  SubSeq(text, i, e)

(***************************************************************************)
(* The cache: url_cache, store_url, get_url                                *)
(***************************************************************************)
\* url_cache[url_id] = url, on a dict held as a function
dict_set(d, key, value) == [k \in DOMAIN d \cup {key} |-> IF k = key THEN value ELSE d[k]]


\* url_cache.get(url_id, url_id): the id itself for an id without an entry
get_url_default_id(cache, url_id) == IF url_id \in DOMAIN cache THEN cache[url_id] ELSE url_id

\* a lookup that gives back the key it found, not the URL stored under it
get_url_returns_key(cache, url_id) == IF url_id \in DOMAIN cache THEN url_id ELSE ""

\* url_cache.get(url_id, '')
get_url(cache, url_id) == IF url_id \in DOMAIN cache THEN cache[url_id] ELSE ""

(***************************************************************************)
(* The inputs of the model: what the chat platform may deliver.            *)
(***************************************************************************)
\* the text of a plain message
Texts ==
    {"http://a.co/oqn", " http://a.co/vat\n", "HTTP://A.CO/x", "ftp://a.co/x", "http://a", "hello"}

\* the texts of the messages when updates are handled concurrently
ConcurrentTexts == {"http://a.co/oqn", "http://a.co/vat", " https://example.com/path\n"}

\* context.args of a /shorten command
ArgLists ==
    {<<>>, <<"http://a.co/oqn">>, <<"HTTP://A.CO/x">>, <<"http://a.co/vat", "now">>, <<"a.co">>}

\* the strings that handle_message and shorten hand on as the url
SequentialUrls == {strip(t) : t \in Texts} \cup {join_space(a) : a \in ArgLists}

\* every string that is handed on as the url in some specification
Submitted == SequentialUrls \cup {strip(t) : t \in ConcurrentTexts}

\* the service codes of a callback payload: those of the menu, and one unknown
ServiceCodes == {"bitly", "tiny", "cutt", "gpl", "all", "foo"}

\* an id that no URL of the model has
StaleId == "deadbeef"

\* payloads that are not of the shape s_<code>_<id>
MalformedPayloads == {"s_gpl", "help"}

\* the three API keys: each unset ('') or set
Configs == [BITLY_TOKEN : {"", "bitly-token"}, CUTTLY_API : {"", "cuttly-key"}, GPLINKS_API : {"", "gplinks-key"}]

(***************************************************************************)
(* The state                                                               *)
(***************************************************************************)
VARIABLES
    config,     \* Config: the API keys read from the environment
    url_cache,  \* url_cache: short id -> URL
    memo,       \* is_valid_url and generate_url_id on the strings of the model,
                \* computed once (neither changes during a run)
    ctx,        \* per handling context: the position in the handler and its locals
    running,    \* the context that holds the event loop between two awaits, 0 for none
    puts,       \* history: every <<id, url>> that store_url was called for
    last_put,   \* history: per id the url of the latest call of store_url
    probe       \* the latest direct call of shorten_url and its result

vars == <<config, url_cache, memo, ctx, running, puts, last_put, probe>>

NumContexts == 2
Contexts == 1..NumContexts

\* is_valid_url(s), read from the table
valid_url(s) == memo.valid[s]

\* generate_url_id(s), read from the table
url_id_of(s) == memo.url_id[s]

\* store_url keeping the entry under the URL, not under its id
store_url_keyed_by_url(cache, url) ==
    [cache |-> dict_set(cache, url, url), url_id |-> url_id_of(url)]

\* store_url as url_cache.setdefault(url_id, url): an existing entry is kept
store_url_keeps_first(cache, url) ==
    LET url_id == url_id_of(url)
    IN  [cache |-> IF url_id \in DOMAIN cache THEN cache ELSE dict_set(cache, url_id, url),
         url_id |-> url_id]

\* store_url binding a fresh dict: the other entries are gone
store_url_replaces_cache(cache, url) ==
    LET url_id == url_id_of(url)
    IN  [cache |-> dict_set(<<>>, url_id, url), url_id |-> url_id]

\* store_url: the cache after the call and the id it returns
store_url(cache, url) ==
    LET url_id == url_id_of(url)
    IN  [cache |-> dict_set(cache, url_id, url), url_id |-> url_id]

(***************************************************************************)
(* Config and the adapters: URLShortenerBot.shorten_url                    *)
(***************************************************************************)
\* Config.SUPPORTED_SERVICES, in the order of the dict
ServiceKeys == <<"bitly", "tinyurl", "cuttly", "gplinks">>

SUPPORTED_SERVICES ==
    [bitly   |-> [name |-> "Bitly",   api_url |-> "https://api-ssl.bitly.com/v4/shorten", requires_key |-> TRUE],
     tinyurl |-> [name |-> "TinyURL", api_url |-> "http://tinyurl.com/api-create.php",    requires_key |-> FALSE],
     cuttly  |-> [name |-> "Cuttly",  api_url |-> "https://cutt.ly/api/api.php",          requires_key |-> TRUE],
     gplinks |-> [name |-> "GPLinks", api_url |-> "https://gplinks.in/api",               requires_key |-> TRUE]]

\* one HTTP request, as recorded by the model: the method, the service, the URL
Request(method, service) == <<method, service, SUPPORTED_SERVICES[service].api_url>>

\* net is the sequence of what the network gives back to the successive requests
shorten_bitly(url, cfg, net) ==
    IF cfg.BITLY_TOKEN = "" THEN Done(Return(PyNone), <<>>)
    ELSE LET reqs == <<Request("POST", "bitly")>>
             response == net[1]
         IN  IF response.exc THEN Done(Raise("RequestException"), reqs)
             ELSE IF response.status_code = 200
             THEN LET j == response_json(response)
                  IN  IF j.kind = "raise" THEN Done(j, reqs)
                      ELSE Done(subscript(j.value, "link"), reqs)
             ELSE Done(Return(PyNone), reqs)

shorten_tinyurl(url, cfg, net) ==
    LET reqs == <<Request("GET", "tinyurl")>>
        response == net[1]
    IN  IF response.exc THEN Done(Raise("RequestException"), reqs)
        ELSE IF response.status_code = 200 THEN Done(Return(PyStr(strip(response.text))), reqs)
        ELSE Done(Return(PyNone), reqs)

shorten_cuttly(url, cfg, net) ==
    IF cfg.CUTTLY_API = "" THEN Done(Return(PyNone), <<>>)
    ELSE LET reqs == <<Request("GET", "cuttly")>>
             response == net[1]
         IN  IF response.exc THEN Done(Raise("RequestException"), reqs)
             ELSE IF response.status_code = 200
             THEN LET data == response_json(response)
                      u == dict_get(data.value, "url", EmptyDict)
                      st == dict_get(u.value, "status", PyNone)
                      link == subscript(u.value, "shortLink")
                  IN  IF data.kind = "raise" THEN Done(data, reqs)
                      ELSE IF u.kind = "raise" THEN Done(u, reqs)
                      ELSE IF st.kind = "raise" THEN Done(st, reqs)
                      ELSE IF py_eq_int(st.value, 7) THEN Done(link, reqs)
                      ELSE Done(Return(PyNone), reqs)
             ELSE Done(Return(PyNone), reqs)

\* the POST attempt of the gplinks branch
gplinks_post(url, cfg, net, get_reqs) ==
    LET reqs == get_reqs \o <<Request("POST", "gplinks")>>
        response == net[2]
    IN  IF response.exc THEN Done(Raise("RequestException"), reqs)
        ELSE IF response.status_code = 200 /\ startswith(strip(response.text), "http")
        THEN Done(Return(PyStr(strip(response.text))), reqs)
        ELSE Done(Return(PyNone), reqs)

shorten_gplinks(url, cfg, net) ==
    IF cfg.GPLINKS_API = "" THEN Done(Return(PyNone), <<>>)
    ELSE LET reqs == <<Request("GET", "gplinks")>>
             response == net[1]
             response_text == strip(response.text)
             json_data == response_json(response)
             status == dict_get(json_data.value, "status", PyNone)
             shortenedUrl == dict_get(json_data.value, "shortenedUrl", PyNone).value
             shorturl == dict_get(json_data.value, "shorturl", PyNone).value
         IN  IF response.exc THEN Done(Raise("RequestException"), reqs)
             ELSE IF response.status_code # 200 THEN gplinks_post(url, cfg, net, reqs)
             ELSE IF startswith(response_text, "http") THEN Done(Return(PyStr(response_text)), reqs)
             ELSE IF json_data.kind = "raise"
             THEN \* except ValueError
                  IF contains(response_text, "http") /\ first_url_start(response_text) # 0
                  THEN Done(Return(PyStr(first_url(response_text))), reqs)
                  ELSE gplinks_post(url, cfg, net, reqs)
             ELSE IF status.kind = "raise" THEN Done(status, reqs)
             ELSE IF py_eq_str(status.value, "success")
             THEN Done(Return(IF Truthy(shortenedUrl) THEN shortenedUrl ELSE shorturl), reqs)
             ELSE gplinks_post(url, cfg, net, reqs)

\* the body of the try block of shorten_url
shorten_url_try(url, service, cfg, net) ==
    IF ~valid_url(url) THEN Done(Return(PyNone), <<>>)
    ELSE CASE service = "bitly" -> shorten_bitly(url, cfg, net)
           [] service = "tinyurl" -> shorten_tinyurl(url, cfg, net)
           [] service = "cuttly" -> shorten_cuttly(url, cfg, net)
           [] service = "gplinks" -> shorten_gplinks(url, cfg, net)
           [] OTHER -> Done(Return(PyNone), <<>>)

\* shorten_url without its except clause: what the try block raises reaches the caller
shorten_url_propagates(url, service, cfg, net) == shorten_url_try(url, service, cfg, net)

\* shorten_url: except Exception: return None
shorten_url(url, service, cfg, net) ==
    LET r == shorten_url_try(url, service, cfg, net)
    IN  IF r.kind = "raise" THEN Done(Return(PyNone), r.reqs) ELSE r

(***************************************************************************)
(* What the providers may answer.  Every provider may fail to answer, may  *)
(* answer with an error status, and may answer 200 with a page that is not *)
(* in its format; besides these each has the answers of its own API.       *)
(***************************************************************************)
ErrorPage == HttpResponse(500, "Internal Server Error", JsonError)
HtmlPage == HttpResponse(200, "<html>Service unavailable</html>", JsonError)

BitlyResponses == <<
    NetRaises, ErrorPage, HtmlPage,
    HttpResponse(200, "{\"link\": \"https://bit.ly/3xYz\"}", PyDict([link |-> PyStr("https://bit.ly/3xYz")])),
    HttpResponse(201, "{\"link\": \"https://bit.ly/3xYz\"}", PyDict([link |-> PyStr("https://bit.ly/3xYz")])),
    HttpResponse(200, "{\"message\": \"FORBIDDEN\"}", PyDict([message |-> PyStr("FORBIDDEN")])),
    HttpResponse(200, "[]", PyList(<<>>)) >>

TinyurlResponses == <<
    NetRaises, ErrorPage,
    HttpResponse(200, "https://tinyurl.com/abc123\n", JsonError),
    HttpResponse(200, "Error", JsonError),
    HttpResponse(200, "", JsonError) >>

CuttlyResponses == <<
    NetRaises, ErrorPage, HtmlPage,
    HttpResponse(200, "{\"url\": {\"status\": 7, \"shortLink\": \"https://cutt.ly/aBc\"}}",
                 PyDict([url |-> PyDict([status |-> PyInt(7), shortLink |-> PyStr("https://cutt.ly/aBc")])])),
    HttpResponse(200, "{\"url\": {\"status\": 2}}", PyDict([url |-> PyDict([status |-> PyInt(2)])])),
    HttpResponse(200, "{\"url\": {\"status\": 7}}", PyDict([url |-> PyDict([status |-> PyInt(7)])])),
    HttpResponse(200, "{\"url\": \"x\"}", PyDict([url |-> PyStr("x")])),
    HttpResponse(200, "{}", EmptyDict),
    HttpResponse(200, "[]", PyList(<<>>)) >>

GplinksResponses == <<
    NetRaises, ErrorPage, HtmlPage,
    HttpResponse(200, " https://gplinks.co/Ab1\n", JsonError),
    HttpResponse(200, "{\"status\": \"success\", \"shortenedUrl\": \"https://gplinks.co/Cd2\"}",
                 PyDict([status |-> PyStr("success"), shortenedUrl |-> PyStr("https://gplinks.co/Cd2")])),
    HttpResponse(200, "{\"status\": \"success\", \"shorturl\": \"https://gplinks.co/Ef3\"}",
                 PyDict([status |-> PyStr("success"), shorturl |-> PyStr("https://gplinks.co/Ef3")])),
    HttpResponse(200, "{\"status\": \"success\"}", PyDict([status |-> PyStr("success")])),
    HttpResponse(200, "{\"status\": \"error\", \"message\": \"Invalid API token\"}",
                 PyDict([status |-> PyStr("error"), message |-> PyStr("Invalid API token")])),
    HttpResponse(200, "[]", PyList(<<>>)),
    HttpResponse(200, "Your link: https://gplinks.co/Gh4 enjoy", JsonError),
    HttpResponse(200, "see the http docs", JsonError) >>

\* the answers the endpoint of a service may give to one request
ResponsesOf(service) ==
    CASE service = "bitly" -> BitlyResponses
      [] service = "tinyurl" -> TinyurlResponses
      [] service = "cuttly" -> CuttlyResponses
      [] service = "gplinks" -> GplinksResponses
      [] OTHER -> <<NetRaises>>

(***************************************************************************)
(* The initial state                                                       *)
(***************************************************************************)
IdleCtx ==
    [pc |-> "idle", caller |-> "", url |-> "", data |-> "", service |-> "", url_id |-> "",
     i |-> 0, message |-> <<>>, successful_shortens |-> 0,
     calls |-> <<>>, results |-> <<>>, reqs |-> <<>>, emits |-> <<>>]

\* no call of shorten_url has been observed yet
NoProbe == [service |-> "", url |-> "", n1 |-> 0, n2 |-> 0, tried |-> "", outcome |-> Done(Return(PyNone), <<>>)]

MemoTable ==
    LET valid == [u \in Submitted |-> is_valid_url(u)]
    IN  [valid |-> valid,
         url_id |-> [u \in Submitted |-> generate_url_id(u)]]

Init ==
    /\ memo = MemoTable
    /\ config \in Configs
    /\ url_cache = <<>>
    /\ ctx = [c \in Contexts |-> IdleCtx]
    /\ running = 0
    /\ puts = {}
    /\ last_put = <<>>
    /\ probe = NoProbe

\* the payloads a callback may carry
Payloads ==
    {"s_" \o code \o "_" \o id :
        code \in ServiceCodes,
        id \in {memo.url_id[u] : u \in {s \in SequentialUrls : memo.valid[s]}} \cup {StaleId}}
    \cup MalformedPayloads

(***************************************************************************)
(* The texts the bot sends.  The emoji of the source are written [OK],     *)
(* [X], [link] and [$], its backquotes as '.                               *)
(***************************************************************************)
MSG_NEED_HTTP == "Please send a valid URL starting with http:// or https://"
MSG_INVALID_URL == "[X] Please provide a valid URL starting with http:// or https://"
MSG_USAGE == "Please provide a URL to shorten. Usage: '/shorten <URL>'"
MSG_ERROR == "[X] An error occurred. Please try again."
MSG_PROCESS_ERROR == "[X] An error occurred while processing your URL. Please try again."
MSG_NOT_FOUND == "[X] URL not found. Please try again."
MSG_INVALID_REQUEST == "[X] Invalid request. Please try again."
MSG_UNKNOWN_COMMAND == "[X] Unknown command. Please try again."
MSG_SINGLE_ERROR == "[X] Error generating shortened URL. Please try again."
MSG_ALL_ERROR == "[X] Error generating shortened URLs. Please try again."
MSG_ALL_FAILED == "[X] All services failed. Please try again later."
MSG_ALL_HEADER == "[link] **Shortened URLs**\n\n"

\* str(n) for 0 <= n <= 9
str_digit(n) == Char(DigitChars, n + 1)

\* service_info.get('name', service.capitalize())
service_name(service) ==
    IF service \in DOMAIN SUPPORTED_SERVICES THEN SUPPORTED_SERVICES[service].name
    ELSE capitalize(service)

\* service_map.get(service_code, service_code)
service_map(service_code) ==
    CASE service_code = "bitly" -> "bitly"
      [] service_code = "tiny" -> "tinyurl"
      [] service_code = "cutt" -> "cuttly"
      [] service_code = "gpl" -> "gplinks"
      [] service_code = "all" -> "all"
      [] OTHER -> service_code

\* the callback_data of the five buttons of the menu
keyboard(url_id) ==
    <<"s_bitly_" \o url_id, "s_tiny_" \o url_id, "s_cutt_" \o url_id, "s_gpl_" \o url_id,
      "s_all_" \o url_id>>

\* the text above the menu
menu_text(url) ==
    LET display_url == IF Len(url) > 50 THEN SubSeq(url, 1, 47) \o "..." ELSE url
    IN  "[link] **Original URL:**\n'" \o display_url \o "'\n\n**Choose a service to shorten:**"

(***************************************************************************)
(* Dispatch: the texts of send_single_shortened_url and the loop of        *)
(* send_all_shortened_urls.  A message is the sequence of the pieces that  *)
(* were appended to it; what is sent is their concatenation.               *)
(***************************************************************************)
\* send_single_shortened_url naming the service by its key, not by its display name
single_message_names_key(service, shortened_url) ==
    IF Truthy(shortened_url)
    THEN <<"[OK] **" \o service \o "**\n[link] '" \o shortened_url.v \o "'">>
         \o (IF service = "gplinks" THEN <<"\n\n[$] *Earn money with this shortened link!*">> ELSE <<>>)
    ELSE <<"[X] Failed to shorten URL using " \o service \o ".">>

single_message(service, shortened_url) ==
    IF Truthy(shortened_url)
    THEN <<"[OK] **" \o service_name(service) \o "**\n[link] '" \o shortened_url.v \o "'">>
         \o (IF service = "gplinks" THEN <<"\n\n[$] *Earn money with this shortened link!*">> ELSE <<>>)
    ELSE <<"[X] Failed to shorten URL using " \o service_name(service) \o ".">>

\* the line of one service in the message of all services
all_line(service_key, shortened_url) ==
    IF Truthy(shortened_url)
    THEN "[OK] **" \o service_name(service_key) \o "**\n'" \o shortened_url.v \o "'"
         \o (IF service_key = "gplinks" THEN " [$]" ELSE "") \o "\n\n"
    ELSE "[X] **" \o service_name(service_key) \o "** - Failed\n\n"

\* the loop leaving at the first service that fails
send_all_iteration_short_circuit(l, shortened_url) ==
    [l EXCEPT !.message = Append(@, all_line(ServiceKeys[l.i], shortened_url)),
              !.successful_shortens = IF Truthy(shortened_url) THEN @ + 1 ELSE @,
              !.i = IF Truthy(shortened_url) THEN @ + 1 ELSE Len(ServiceKeys) + 1]

\* the loop without successful_shortens += 1
send_all_iteration_no_count(l, shortened_url) ==
    [l EXCEPT !.message = Append(@, all_line(ServiceKeys[l.i], shortened_url)),
              !.i = @ + 1]

\* one pass of the loop: the locals after the service at index l.i
send_all_iteration(l, shortened_url) ==
    [l EXCEPT !.message = Append(@, all_line(ServiceKeys[l.i], shortened_url)),
              !.successful_shortens = IF Truthy(shortened_url) THEN @ + 1 ELSE @,
              !.i = @ + 1]

\* after the loop, without the replacement of the message when nothing succeeded
send_all_final_keeps_lines(message, successful_shortens) ==
    Append(message, "[OK] **" \o str_digit(successful_shortens) \o "/"
                     \o str_digit(Len(ServiceKeys)) \o " successful**")

\* after the loop: the message that is sent
send_all_final(message, successful_shortens) ==
    IF successful_shortens = 0 THEN <<MSG_ALL_FAILED>>
    ELSE Append(message, "[OK] **" \o str_digit(successful_shortens) \o "/"
                          \o str_digit(Len(ServiceKeys)) \o " successful**")

(***************************************************************************)
(* The handlers.  A context is idle, or suspended in an await of a         *)
(* handler (its pc names the awaited call), or inside the code between two *)
(* awaits (then it holds the event loop: running).  An action is the       *)
(* completion of the awaited call (ok: it returned; otherwise it raised)   *)
(* with the code that follows it up to the next await.                     *)
(***************************************************************************)
store_vars == <<config, url_cache, memo, puts, last_put, probe>>

\* one call of the Telegram API, as recorded in the context
Sent(l, api, text, buttons, ok) ==
    [l EXCEPT !.emits = Append(@, [api |-> api, text |-> text, keyboard |-> buttons, ok |-> ok])]

\* an awaited Telegram call at position pc completes
tg_call(c, pc, api, text, buttons, ok, next_ok, next_raise) ==
    /\ running = 0
    /\ ctx[c].pc = pc
    /\ ctx' = [ctx EXCEPT ![c] = [Sent(@, api, text, buttons, ok) EXCEPT !.pc = IF ok THEN next_ok ELSE next_raise]]
    /\ UNCHANGED <<running, store_vars>>

\* process_url without the test of is_valid_url
process_url_enter_unchecked(l, url, caller) ==
    [l EXCEPT !.url = url, !.caller = caller, !.pc = "pu_chat_action"]

\* process_url up to its first await
process_url_enter(l, url, caller) ==
    [l EXCEPT !.url = url, !.caller = caller,
              !.pc = IF valid_url(url) THEN "pu_chat_action" ELSE "pu_reply_invalid"]

\* handle_message: a text message arrives
handle_message(c, text) ==
    /\ running = 0
    /\ ctx[c].pc = "idle"
    /\ LET url == strip(text)
       IN  ctx' = [ctx EXCEPT ![c] =
                     IF ~(startswith(url, "http://") \/ startswith(url, "https://"))
                     THEN [@ EXCEPT !.url = url, !.caller = "handle_message", !.pc = "hm_reply_invalid"]
                     ELSE process_url_enter(@, url, "handle_message")]
    /\ UNCHANGED <<running, store_vars>>

handle_message_reply_invalid(c, ok) ==
    tg_call(c, "hm_reply_invalid", "reply_text", <<MSG_NEED_HTTP>>, <<>>, ok, "done", "hm_except")

handle_message_except(c, ok) ==
    tg_call(c, "hm_except", "reply_text", <<MSG_ERROR>>, <<>>, ok, "done", "error_handler")

\* shorten: a /shorten command arrives
shorten(c, args) ==
    /\ running = 0
    /\ ctx[c].pc = "idle"
    /\ ctx' = [ctx EXCEPT ![c] =
                 IF args = <<>>
                 THEN [@ EXCEPT !.caller = "shorten", !.pc = "sh_reply_usage"]
                 ELSE process_url_enter(@, join_space(args), "shorten")]
    /\ UNCHANGED <<running, store_vars>>

shorten_reply_usage(c, ok) ==
    tg_call(c, "sh_reply_usage", "reply_text", <<MSG_USAGE>>, <<>>, ok, "done", "sh_except")

shorten_except(c, ok) ==
    tg_call(c, "sh_except", "reply_text", <<MSG_ERROR>>, <<>>, ok, "done", "error_handler")

process_url_reply_invalid(c, ok) ==
    tg_call(c, "pu_reply_invalid", "reply_text", <<MSG_INVALID_URL>>, <<>>, ok, "done", "pu_except")

\* reply_chat_action completes; then url_id = self.store_url(url)
process_url_store(c, ok) ==
    /\ running = 0
    /\ ctx[c].pc = "pu_chat_action"
    /\ LET l == Sent(ctx[c], "reply_chat_action", <<"typing">>, <<>>, ok)
           stored == store_url(url_cache, l.url)
       IN  IF ok
           THEN /\ url_cache' = stored.cache
                /\ puts' = puts \cup {<<memo.url_id[l.url], l.url>>}
                /\ last_put' = [id \in DOMAIN last_put \cup {memo.url_id[l.url]} |->
                                  IF id = memo.url_id[l.url] THEN l.url ELSE last_put[id]]
                /\ ctx' = [ctx EXCEPT ![c] = [l EXCEPT !.url_id = stored.url_id, !.pc = "pu_reply_menu"]]
           ELSE /\ ctx' = [ctx EXCEPT ![c] = [l EXCEPT !.pc = "pu_except"]]
                /\ UNCHANGED <<url_cache, puts, last_put>>
    /\ UNCHANGED <<running, config, memo, probe>>

process_url_reply_menu(c, ok) ==
    tg_call(c, "pu_reply_menu", "reply_text", <<menu_text(ctx[c].url)>>, keyboard(ctx[c].url_id),
            ok, "done", "pu_except")

\* the except of process_url; when its reply raises too, the caller's except
process_url_except(c, ok) ==
    tg_call(c, "pu_except", "reply_text", <<MSG_PROCESS_ERROR>>, <<>>, ok, "done",
            IF ctx[c].caller = "handle_message" THEN "hm_except" ELSE "sh_except")

\* the error handler of the application: its own reply is in a try
error_handler(c, ok) ==
    tg_call(c, "error_handler", "reply_text", <<MSG_ERROR>>, <<>>, ok, "done", "done")

\* button_handler: a button press arrives with its callback data
button_handler(c, data) ==
    /\ running = 0
    /\ ctx[c].pc = "idle"
    /\ ctx' = [ctx EXCEPT ![c] = [@ EXCEPT !.caller = "button_handler", !.data = data, !.pc = "bh_answer"]]
    /\ UNCHANGED <<running, store_vars>>

\* query.answer() completes; then the data is taken apart and the URL looked up
button_handler_answer(c, ok) ==
    /\ running = 0
    /\ ctx[c].pc = "bh_answer"
    /\ LET l == Sent(ctx[c], "answer", <<>>, <<>>, ok)
           data == l.data
           parts == split2(data, "_")
           url == get_url(url_cache, parts[3])
       IN  ctx' = [ctx EXCEPT ![c] =
                     IF ~ok THEN [l EXCEPT !.pc = "bh_except"]
                     ELSE IF ~startswith(data, "s_") THEN [l EXCEPT !.pc = "bh_edit_unknown"]
                     ELSE IF Len(parts) # 3 THEN [l EXCEPT !.pc = "bh_edit_invalid"]
                     ELSE [l EXCEPT !.service = service_map(parts[2]), !.url_id = parts[3], !.url = url,
                                    !.pc = IF url = "" THEN "bh_edit_not_found" ELSE "bh_chat_action"]]
    /\ UNCHANGED <<running, store_vars>>

button_handler_edit_not_found(c, ok) ==
    tg_call(c, "bh_edit_not_found", "edit_message_text", <<MSG_NOT_FOUND>>, <<>>, ok, "done", "bh_except")

button_handler_edit_invalid(c, ok) ==
    tg_call(c, "bh_edit_invalid", "edit_message_text", <<MSG_INVALID_REQUEST>>, <<>>, ok, "done", "bh_except")

\* the edit of the else branch outside the try of button_handler: its failure
\* goes straight to the error handler of the application
button_handler_edit_unknown_uncaught(c, ok) ==
    tg_call(c, "bh_edit_unknown", "edit_message_text", <<MSG_UNKNOWN_COMMAND>>, <<>>, ok, "done", "error_handler")

button_handler_edit_unknown(c, ok) ==
    tg_call(c, "bh_edit_unknown", "edit_message_text", <<MSG_UNKNOWN_COMMAND>>, <<>>, ok, "done", "bh_except")

\* reply_chat_action completes; then send_all_shortened_urls or
\* send_single_shortened_url starts, which runs without an await up to its edit
button_handler_chat_action(c, ok) ==
    /\ running = 0
    /\ ctx[c].pc = "bh_chat_action"
    /\ LET l == Sent(ctx[c], "reply_chat_action", <<"typing">>, <<>>, ok)
       IN  IF ~ok
           THEN /\ ctx' = [ctx EXCEPT ![c] = [l EXCEPT !.pc = "bh_except"]]
                /\ UNCHANGED running
           ELSE /\ ctx' = [ctx EXCEPT ![c] =
                             IF l.service = "all"
                             THEN [l EXCEPT !.message = <<MSG_ALL_HEADER>>, !.successful_shortens = 0,
                                            !.i = 1, !.pc = "sa_loop"]
                             ELSE [l EXCEPT !.pc = "ss_shorten"]]
                /\ running' = c
    /\ UNCHANGED store_vars

\* send_single_shortened_url up to its await: the adapter is called, the text built
send_single_shortened_url(c, n1, n2) ==
    /\ running = c
    /\ ctx[c].pc = "ss_shorten"
    /\ LET l == ctx[c]
           R == ResponsesOf(l.service)
           res == shorten_url(l.url, l.service, config, <<R[n1], R[n2]>>)
       IN  ctx' = [ctx EXCEPT ![c] =
                     [l EXCEPT !.calls = Append(@, l.service), !.results = Append(@, res.value),
                               !.reqs = @ \o res.reqs,
                               !.message = single_message(l.service, res.value),
                               !.successful_shortens = IF Truthy(res.value) THEN 1 ELSE 0,
                               !.pc = "ss_edit"]]
    /\ running' = 0
    /\ UNCHANGED store_vars

send_single_edit(c, ok) ==
    tg_call(c, "ss_edit", "edit_message_text", ctx[c].message, <<>>, ok, "done", "ss_except")

send_single_except(c, ok) ==
    tg_call(c, "ss_except", "edit_message_text", <<MSG_SINGLE_ERROR>>, <<>>, ok, "done", "bh_except")

\* one pass of the loop of send_all_shortened_urls; after the last service the
\* final text is built and the handler reaches its await
send_all_shortened_urls(c, n1, n2) ==
    /\ running = c
    /\ ctx[c].pc = "sa_loop"
    /\ LET l == ctx[c]
           service_key == ServiceKeys[l.i]
           R == ResponsesOf(service_key)
           res == shorten_url(l.url, service_key, config, <<R[n1], R[n2]>>)
           nx == [send_all_iteration(l, res.value) EXCEPT !.calls = Append(@, service_key),
                                                          !.results = Append(@, res.value),
                                                          !.reqs = @ \o res.reqs]
       IN  IF nx.i <= Len(ServiceKeys)
           THEN /\ ctx' = [ctx EXCEPT ![c] = nx]
                /\ UNCHANGED running
           ELSE /\ ctx' = [ctx EXCEPT ![c] =
                             [nx EXCEPT !.message = send_all_final(nx.message, nx.successful_shortens),
                                        !.pc = "sa_edit"]]
                /\ running' = 0
    /\ UNCHANGED store_vars

send_all_edit(c, ok) ==
    tg_call(c, "sa_edit", "edit_message_text", ctx[c].message, <<>>, ok, "done", "sa_except")

send_all_except(c, ok) ==
    tg_call(c, "sa_except", "edit_message_text", <<MSG_ALL_ERROR>>, <<>>, ok, "done", "bh_except")

\* the except of button_handler: an edit, and when that raises a reply
button_handler_except(c, ok) ==
    tg_call(c, "bh_except", "edit_message_text", <<MSG_ERROR>>, <<>>, ok, "done", "bh_except_reply")

button_handler_except_reply(c, ok) ==
    tg_call(c, "bh_except_reply", "reply_text", <<MSG_ERROR>>, <<>>, ok, "done", "error_handler")

\* the handler has returned: the context takes the next update
finish(c) ==
    /\ running = 0
    /\ ctx[c].pc = "done"
    /\ ctx' = [ctx EXCEPT ![c] = IdleCtx]
    /\ UNCHANGED <<running, store_vars>>

(***************************************************************************)
(* The bot as the application runs it: updates are handled one at a time   *)
(* (the Application is built without concurrent_updates).                  *)
(***************************************************************************)
\* the indices of the answers to the requests of one adapter call
FirstAnswers(service) == 1..Len(ResponsesOf(service))
SecondAnswers(service) == IF service = "gplinks" THEN 1..Len(ResponsesOf(service)) ELSE {1}

\* the service whose adapter the context calls next
current_service(l) == IF l.pc = "sa_loop" THEN ServiceKeys[l.i] ELSE l.service

Next ==
    \E c \in {1} :
        \/ \E text \in Texts : handle_message(c, text)
        \/ \E args \in ArgLists : shorten(c, args)
        \/ \E data \in Payloads : button_handler(c, data)
        \/ \E n1 \in FirstAnswers(current_service(ctx[c])), n2 \in SecondAnswers(current_service(ctx[c])) :
               \/ send_single_shortened_url(c, n1, n2)
               \/ send_all_shortened_urls(c, n1, n2)
        \/ \E ok \in BOOLEAN :
               \/ handle_message_reply_invalid(c, ok)
               \/ handle_message_except(c, ok)
               \/ shorten_reply_usage(c, ok)
               \/ shorten_except(c, ok)
               \/ process_url_reply_invalid(c, ok)
               \/ process_url_store(c, ok)
               \/ process_url_reply_menu(c, ok)
               \/ process_url_except(c, ok)
               \/ error_handler(c, ok)
               \/ button_handler_answer(c, ok)
               \/ button_handler_edit_not_found(c, ok)
               \/ button_handler_edit_invalid(c, ok)
               \/ button_handler_edit_unknown(c, ok)
               \/ button_handler_chat_action(c, ok)
               \/ send_single_edit(c, ok)
               \/ send_single_except(c, ok)
               \/ send_all_edit(c, ok)
               \/ send_all_except(c, ok)
               \/ button_handler_except(c, ok)
               \/ button_handler_except_reply(c, ok)
        \/ finish(c)

Spec == Init /\ [][Next]_vars

(***************************************************************************)
(* The adapter on its own: shorten_url called with a URL, a service and    *)
(* the answers of the provider; probe keeps the call and its outcome.      *)
(***************************************************************************)
ProbeUrls == {"http://a.co/oqn", "ftp://a.co/x"}
ProbeServices == {"bitly", "tinyurl", "cuttly", "gplinks", "foo"}

call_shorten_url(url, service, n1, n2) ==
    /\ LET R == ResponsesOf(service)
       IN  probe' = [service |-> service, url |-> url, n1 |-> n1, n2 |-> n2,
                     tried |-> shorten_url_try(url, service, config, <<R[n1], R[n2]>>).kind,
                     outcome |-> shorten_url(url, service, config, <<R[n1], R[n2]>>)]
    /\ UNCHANGED <<config, url_cache, memo, ctx, running, puts, last_put>>

NextAdapter ==
    \E url \in ProbeUrls, service \in ProbeServices :
        \E n1 \in FirstAnswers(service), n2 \in SecondAnswers(service) :
            call_shorten_url(url, service, n1, n2)

SpecAdapter == Init /\ [][NextAdapter]_vars

\* the credential shorten_url requires for the service is unset
credential_missing(service, cfg) ==
    \/ service = "bitly" /\ cfg.BITLY_TOKEN = ""
    \/ service = "cuttly" /\ cfg.CUTTLY_API = ""
    \/ service = "gplinks" /\ cfg.GPLINKS_API = ""

\* the answer to the last request the observed call made
last_answer ==
    ResponsesOf(probe.service)[IF Len(probe.outcome.reqs) = 2 THEN probe.n2 ELSE probe.n1]

\* a 200 answer whose body is not in the format the adapter reads: not a JSON
\* object for bitly and cuttly; for gplinks neither a JSON object nor a text
\* with a URL in it.  The tinyurl adapter reads no format: it takes the text.
body_unparseable(service, response) ==
    /\ ~response.exc
    /\ response.status_code = 200
    /\ response.json.t # "dict"
    /\ service \in {"bitly", "cuttly", "gplinks"}
    /\ service = "gplinks" => /\ ~startswith(strip(response.text), "http")
                              /\ first_url_start(strip(response.text)) = 0

\* C1: shorten_url fails closed.  A call of shorten_url never ends in an
\* exception.  It returns None, having made no request, when the credential
\* of the service is unset; and it returns None when the last request it made
\* (the only one, or the POST that gplinks makes after a GET it could not use)
\* raised a transport error or timeout, was answered with a status other than
\* 200, or was answered with a body that cannot be parsed.
C1_AdapterFailsClosed ==
    probe.service \in {"bitly", "tinyurl", "cuttly", "gplinks"} =>
        /\ probe.outcome.kind = "return"
        /\ credential_missing(probe.service, config) =>
               (probe.outcome.value = PyNone /\ probe.outcome.reqs = <<>>)
        /\ (/\ probe.outcome.reqs # <<>>
            /\ \/ last_answer.exc
               \/ last_answer.status_code # 200
               \/ body_unparseable(probe.service, last_answer)) => probe.outcome.value = PyNone

\* C1 witness: gplinks with its key set; the GET is answered 500 and the POST
\* raises: the exception is caught inside and the call returns None
C1_Witness ==
    /\ probe.service = "gplinks"
    /\ probe.url = "http://a.co/oqn"
    /\ config.GPLINKS_API # ""
    /\ Len(probe.outcome.reqs) = 2
    /\ ResponsesOf("gplinks")[probe.n1].status_code = 500
    /\ ResponsesOf("gplinks")[probe.n2].exc
    /\ probe.tried = "raise"
    /\ probe.outcome = Done(Return(PyNone), <<Request("GET", "gplinks"), Request("POST", "gplinks")>>)

(***************************************************************************)
(* Dispatch: the texts the properties below expect, written out.           *)
(***************************************************************************)
\* the adapter returned a short URL
succeeded(r) == r.t = "str" /\ r.v # ""

\* the display names of the four services
DisplayName(service) ==
    CASE service = "bitly" -> "Bitly"
      [] service = "tinyurl" -> "TinyURL"
      [] service = "cuttly" -> "Cuttly"
      [] service = "gplinks" -> "GPLinks"

\* the fixed order of an all-services dispatch
DispatchOrder == <<"bitly", "tinyurl", "cuttly", "gplinks">>

\* the context is in, or past, the loop of an all-services dispatch
in_all_dispatch(l) == l.service = "all" /\ l.i >= 1

\* the context is past the loop of an all-services dispatch
all_dispatched(l) == l.service = "all" /\ l.i = 5 /\ Len(l.results) = 4

\* how many of the four adapters succeeded
success_count(l) == Cardinality({j \in 1..4 : succeeded(l.results[j])})

is_success_line(line, service, r) ==
    /\ startswith(line, "[OK] **" \o DisplayName(service) \o "**")
    /\ contains(line, "'" \o r.v \o "'")

is_failure_line(line, service) == line = "[X] **" \o DisplayName(service) \o "** - Failed\n\n"

\* the third call of the Telegram API in a dispatch (after answer and
\* reply_chat_action) is the edit that shows the message
shown(l) == Len(l.emits) >= 3 => l.emits[3].api = "edit_message_text" /\ l.emits[3].text = l.message

\* C2: in an all-services dispatch every configured service is attempted
\* exactly once, in the order bitly, tinyurl, cuttly, gplinks: while the loop
\* runs the services attempted so far are a prefix of that order, whatever
\* the earlier ones returned, and the loop is left only after all four.
C2_AllServicesAttemptedInOrder ==
    \A c \in Contexts :
        LET l == ctx[c]
        IN  in_all_dispatch(l) =>
                /\ l.i <= 5
                /\ l.calls = SubSeq(DispatchOrder, 1, l.i - 1)
                /\ Len(l.results) = Len(l.calls)
                /\ l.pc # "sa_loop" => l.calls = DispatchOrder

\* C2 witness: the dispatch is over, bitly was asked and failed, cuttly failed,
\* and tinyurl and gplinks were still attempted and succeeded
C2_Witness ==
    /\ ctx[1].pc = "sa_edit"
    /\ ctx[1].calls = DispatchOrder
    /\ ctx[1].reqs[1] = Request("POST", "bitly")
    /\ ~succeeded(ctx[1].results[1])
    /\ succeeded(ctx[1].results[2])
    /\ ~succeeded(ctx[1].results[3])
    /\ succeeded(ctx[1].results[4])

\* C3: when k >= 1 of the four adapters succeed in an all-services dispatch,
\* the message is the header, one line per service in order (a success line
\* with the short URL for each that succeeded, a failure line for each that
\* failed: k success lines and 4-k failure lines) and the trailer
\* 'k/4 successful'; that message is what is shown.
C3_AggregateMessage ==
    \A c \in Contexts :
        LET l == ctx[c]
            k == success_count(l)
        IN  (all_dispatched(l) /\ k >= 1) =>
                /\ Len(l.message) = 6
                /\ l.message[1] = MSG_ALL_HEADER
                /\ \A j \in 1..4 :
                       IF succeeded(l.results[j])
                       THEN is_success_line(l.message[j + 1], DispatchOrder[j], l.results[j])
                       ELSE is_failure_line(l.message[j + 1], DispatchOrder[j])
                /\ Cardinality({j \in 1..4 : startswith(l.message[j + 1], "[OK] **")}) = k
                /\ Cardinality({j \in 1..4 : startswith(l.message[j + 1], "[X] **")}) = 4 - k
                /\ l.message[6] = <<"[OK] **1/4 successful**", "[OK] **2/4 successful**",
                                    "[OK] **3/4 successful**", "[OK] **4/4 successful**">>[k]
                /\ shown(l)

\* C3 witness: two succeed and two fail, and the message with '2/4 successful' was sent
C3_Witness ==
    /\ ctx[1].pc = "done"
    /\ all_dispatched(ctx[1])
    /\ success_count(ctx[1]) = 2
    /\ Len(ctx[1].emits) = 3
    /\ ctx[1].emits[3].ok
    /\ ctx[1].emits[3].text[6] = "[OK] **2/4 successful**"

\* C4: when none of the four adapters succeeds in an all-services dispatch,
\* the message is the blanket failure notice alone: no header, no line of a
\* service, no trailer; that message is what is shown.
C4_BlanketFailureNotice ==
    \A c \in Contexts :
        LET l == ctx[c]
        IN  (all_dispatched(l) /\ success_count(l) = 0) =>
                /\ l.message = <<"[X] All services failed. Please try again later.">>
                /\ shown(l)

\* C4 witness: all four were attempted (tinyurl over the network) and failed,
\* and the notice was sent
C4_Witness ==
    /\ ctx[1].pc = "done"
    /\ all_dispatched(ctx[1])
    /\ success_count(ctx[1]) = 0
    /\ ctx[1].reqs # <<>>
    /\ Len(ctx[1].emits) = 3
    /\ ctx[1].emits[3].ok
    /\ ctx[1].emits[3].text = <<MSG_ALL_FAILED>>

\* C5: a single-service dispatch calls the adapter of that service once.  When
\* it returns a short URL the message reports success with the display name
\* and exactly that URL; otherwise the message is the failure text with the
\* display name.  With the gplinks key unset the dispatch of gplinks makes no
\* request and reports the failure naming GPLinks.  The message is what is
\* shown, and the except branch of the dispatch is entered only when that
\* call of the Telegram API failed.
C5_SingleDispatch ==
    \A c \in Contexts :
        LET l == ctx[c]
        IN  (l.service \in {"bitly", "tinyurl", "cuttly", "gplinks"} /\ l.calls # <<>>) =>
                /\ l.calls = <<l.service>>
                /\ Len(l.results) = 1
                /\ IF succeeded(l.results[1])
                   THEN /\ l.message[1] = "[OK] **" \o DisplayName(l.service) \o "**\n[link] '"
                                           \o l.results[1].v \o "'"
                        /\ Len(l.message) = IF l.service = "gplinks" THEN 2 ELSE 1
                   ELSE l.message = <<"[X] Failed to shorten URL using " \o DisplayName(l.service) \o ".">>
                /\ (l.service = "gplinks" /\ config.GPLINKS_API = "") =>
                       (l.message = <<"[X] Failed to shorten URL using GPLinks.">> /\ l.reqs = <<>>)
                /\ shown(l)
                /\ l.pc = "ss_except" => (Len(l.emits) = 3 /\ ~l.emits[3].ok)

\* C5 witness: gplinks dispatched with its key unset; the failure naming GPLinks was sent
C5_Witness ==
    /\ ctx[1].pc = "done"
    /\ ctx[1].service = "gplinks"
    /\ config.GPLINKS_API = ""
    /\ ctx[1].calls = <<"gplinks">>
    /\ Len(ctx[1].emits) = 3
    /\ ctx[1].emits[3].ok
    /\ ctx[1].emits[3].text = <<"[X] Failed to shorten URL using GPLinks.">>

(***************************************************************************)
(* Concurrently handled updates: every context runs a handler, the steps   *)
(* between two awaits interleave.  The updates are messages with a URL and *)
(* presses of the TinyURL button of their menus; the platform answers.     *)
(***************************************************************************)
ConcurrentPayloads == {"s_tiny_" \o memo.url_id[strip(t)] : t \in ConcurrentTexts}

InitConcurrent ==
    /\ Init
    /\ config = [BITLY_TOKEN |-> "bitly-token", CUTTLY_API |-> "cuttly-key", GPLINKS_API |-> "gplinks-key"]

NextConcurrent ==
    \E c \in Contexts :
        \/ \E text \in ConcurrentTexts : handle_message(c, text)
        \/ \E data \in ConcurrentPayloads : button_handler(c, data)
        \/ process_url_store(c, TRUE)
        \/ process_url_reply_menu(c, TRUE)
        \/ button_handler_answer(c, TRUE)
        \/ button_handler_edit_not_found(c, TRUE)
        \/ button_handler_chat_action(c, TRUE)
        \/ send_single_shortened_url(c, 3, 1)
        \/ send_single_edit(c, TRUE)
        \/ finish(c)

SpecConcurrent == InitConcurrent /\ [][NextConcurrent]_vars

(***************************************************************************)
(* The cache: what the properties below expect of it.                      *)
(***************************************************************************)
\* the first 8 hex digits of the MD5 of the URLs of the model, as hashlib gives them
KnownIds ==
    [u \in {"http://a.co/oqn", "http://a.co/vat", "https://example.com/path", "HTTP://A.CO/x"} |->
        CASE u = "http://a.co/oqn" -> "08fdbc79"
          [] u = "http://a.co/vat" -> "08fdbc79"
          [] u = "https://example.com/path" -> "a1e3de54"
          [] u = "HTTP://A.CO/x" -> "51bbc0c6"]

\* the payload has the shape s_<code>_<id>
shaped(data) == startswith(data, "s_") /\ Len(split2(data, "_")) = 3
id_of(data) == split2(data, "_")[3]

\* C6: a callback of the shape s_<code>_<id> whose id is not a key of the
\* cache calls no adapter and makes no HTTP request; once query.answer() has
\* returned, its next and last call of the Telegram API is the edit to the
\* 'URL not found' text, and the handler is in its except branch only when
\* that edit itself failed.  (Updates are handled one at a time, so the cache
\* is the one the handler looked in.)
C6_UnknownIdNotFound ==
    \A c \in Contexts :
        LET l == ctx[c]
        IN  (/\ l.caller = "button_handler"
             /\ shaped(l.data)
             /\ id_of(l.data) \notin DOMAIN url_cache
             /\ Len(l.emits) >= 1
             /\ l.emits[1].ok) =>
                /\ l.calls = <<>> /\ l.results = <<>> /\ l.reqs = <<>>
                /\ l.pc \in {"bh_edit_not_found", "done", "bh_except", "bh_except_reply", "error_handler"}
                /\ Len(l.emits) >= 2 =>
                       /\ l.emits[2].api = "edit_message_text"
                       /\ l.emits[2].text = <<"[X] URL not found. Please try again.">>
                       /\ l.emits[2].ok => (l.pc = "done" /\ Len(l.emits) = 2)
                /\ l.pc \in {"bh_except", "bh_except_reply", "error_handler"} =>
                       (Len(l.emits) >= 2 /\ ~l.emits[2].ok)

\* C6 witness: s_gpl_deadbeef arrives while the cache holds other entries; the
\* 'URL not found' text is shown and the handler has returned
C6_Witness ==
    /\ ctx[1].pc = "done"
    /\ ctx[1].data = "s_gpl_deadbeef"
    /\ url_cache # <<>>
    /\ ctx[1].calls = <<>>
    /\ ctx[1].reqs = <<>>
    /\ Len(ctx[1].emits) = 2
    /\ ctx[1].emits[2] = [api |-> "edit_message_text", text |-> <<MSG_NOT_FOUND>>, keyboard |-> <<>>, ok |-> TRUE]

\* C7: every entry id -> url of the cache has id = the first 8 hex digits of
\* the MD5 of url.
C7_CacheKeyIsShortId ==
    \A id \in DOMAIN url_cache :
        /\ url_cache[id] \in DOMAIN memo.url_id
        /\ id = memo.url_id[url_cache[id]]
        /\ id = KnownIds[url_cache[id]]
        /\ Len(id) = 8

\* C7 witness: three URLs have been stored, two of them with the same id
C7_Witness ==
    /\ DOMAIN url_cache = {"08fdbc79", "51bbc0c6"}
    /\ {<<"08fdbc79", "http://a.co/oqn">>, <<"08fdbc79", "http://a.co/vat">>} \subseteq puts

\* the URLs that process_url stores
ValidUrls == {u \in Submitted : memo.valid[u]}

\* C8: round trip.  On every cache the bot reaches, storing a valid URL and
\* then looking up the id store_url returned gives that URL back; and right
\* after process_url has stored its URL (no other put in between) get_url of
\* the id it got is that URL.
C8_RoundTrip ==
    /\ \A u \in ValidUrls :
           LET stored == store_url(url_cache, u)
           IN  get_url(stored.cache, stored.url_id) = u
    /\ \A c \in Contexts :
           ctx[c].pc = "pu_reply_menu" => get_url(url_cache, ctx[c].url_id) = ctx[c].url

\* C8 witness: process_url has just stored a URL into a cache that held another
C8_Witness ==
    /\ ctx[1].pc = "pu_reply_menu"
    /\ ctx[1].url = "HTTP://A.CO/x"
    /\ ctx[1].url_id = "51bbc0c6"
    /\ "08fdbc79" \in DOMAIN url_cache
    /\ url_cache["51bbc0c6"] = "HTTP://A.CO/x"

\* C9: collision overwrite.  For every id, a lookup gives the URL of the
\* latest put under that id: when u1 and then u2 # u1 were put under the same
\* id, get_url gives u2 and no longer u1, and a callback carrying that id (the
\* buttons of the menu of u1 carry it) is served with u2.
C9_CollisionOverwrite ==
    /\ \A p \in puts :
           /\ get_url(url_cache, p[1]) = last_put[p[1]]
           /\ p[2] # last_put[p[1]] => get_url(url_cache, p[1]) # p[2]
    /\ \A c \in Contexts :
           (ctx[c].caller = "button_handler" /\ ctx[c].url_id \in DOMAIN last_put) =>
               ctx[c].url = last_put[ctx[c].url_id]

\* C9 witness: http://a.co/oqn was stored, then http://a.co/vat with the same
\* id; a press of a button with that id has looked the id up and got the latter
C9_Witness ==
    /\ ctx[1].pc = "bh_chat_action"
    /\ ctx[1].url_id = "08fdbc79"
    /\ <<"08fdbc79", "http://a.co/oqn">> \in puts
    /\ last_put["08fdbc79"] = "http://a.co/vat"
    /\ ctx[1].url = "http://a.co/vat"

\* C10: under every interleaving of the handlers of concurrently handled
\* updates, a lookup gives '' (absent) or a URL that some put stored under the
\* id looked up; and the cache holds, for exactly the ids that were put, the
\* URL of the latest put under the id: a completed put is lost only to a later
\* put under the same id.
C10_ConcurrentCacheSafe ==
    /\ \A c \in Contexts :
           (ctx[c].caller = "button_handler" /\ ctx[c].url_id # "") =>
               (ctx[c].url = "" \/ <<ctx[c].url_id, ctx[c].url>> \in puts)
    /\ DOMAIN url_cache = {p[1] : p \in puts}
    /\ \A p \in puts :
           /\ <<p[1], url_cache[p[1]]>> \in puts
           /\ url_cache[p[1]] = last_put[p[1]]

\* C10 witness: one context has looked up http://a.co/oqn and is still running
\* while another has stored http://a.co/vat under the same id, beside the
\* entry of a third URL
C10_Witness ==
    /\ ctx[1].pc = "bh_chat_action"
    /\ ctx[1].url = "http://a.co/oqn"
    /\ ctx[2].pc = "pu_reply_menu"
    /\ ctx[2].url = "http://a.co/vat"
    /\ url_cache["08fdbc79"] = "http://a.co/vat"
    /\ "a1e3de54" \in DOMAIN url_cache

\* ---------------------------------------------------------------------------
\* The gplinks adapter: GET, then POST

\* the GET of the observed call and the POST that may follow it
gplinks_get == GplinksResponses[probe.n1]
gplinks_post_answer == GplinksResponses[probe.n2]

\* a result URL can be extracted from the answer to the GET: the status is 200
\* and the body is a URL, a JSON object of status success that carries one, or a
\* text with a URL in it
gplinks_get_usable(r) ==
    /\ r.status_code = 200
    /\ \/ startswith(strip(r.text), "http")
       \/ /\ r.json.t = "dict"
          /\ "status" \in DOMAIN r.json.v
          /\ r.json.v["status"] = PyStr("success")
          /\ \E k \in {"shortenedUrl", "shorturl"} :
                 k \in DOMAIN r.json.v /\ Truthy(r.json.v[k])
       \/ r.json.t = "ValueError" /\ first_url_start(strip(r.text)) # 0

\* the POST succeeds: status 200 and a body that starts with http
gplinks_post_usable(r) ==
    ~r.exc /\ r.status_code = 200 /\ startswith(strip(r.text), "http")

\* C11: the gplinks adapter with its key set.  Whenever the GET is answered and
\* the answer gives no usable result (a status other than 200, or a 200 body
\* from which no result URL is extracted), the same parameters are sent again
\* as a POST, and the result is then the trimmed body of the POST if its status
\* is 200 and the body starts with http, and None otherwise; the adapter
\* returns None only if neither the GET nor the POST succeeds.
C11_GplinksPostFallback ==
    (probe.service = "gplinks" /\ config.GPLINKS_API # "" /\ ~gplinks_get.exc) =>
        /\ ~gplinks_get_usable(gplinks_get) =>
               /\ probe.outcome.reqs = <<Request("GET", "gplinks"), Request("POST", "gplinks")>>
               /\ probe.outcome.value = IF gplinks_post_usable(gplinks_post_answer)
                                        THEN PyStr(strip(gplinks_post_answer.text))
                                        ELSE PyNone
        /\ probe.outcome.value = PyNone =>
               (~gplinks_get_usable(gplinks_get) /\ ~gplinks_post_usable(gplinks_post_answer))

\* ---------------------------------------------------------------------------
\* Validation and the cache

\* the string starts with http:// or https://
has_http_scheme(s) == startswith(s, "http://") \/ startswith(s, "https://")

\* process_url has taken the URL of the context: is_valid_url returned True
accepted(l) ==
    l.caller \in {"handle_message", "shorten"} /\ l.pc \in {"pu_chat_action", "pu_reply_menu"}

\* C12: a string that does not start with http:// or https:// is rejected by
\* is_valid_url: process_url never accepts such a string, whether a text
\* message or a /shorten command delivered it, and no such string is ever held
\* in the cache.
C12_SchemeRequired ==
    /\ \A c \in Contexts : accepted(ctx[c]) => has_http_scheme(ctx[c].url)
    /\ \A id \in DOMAIN url_cache : has_http_scheme(url_cache[id])

\* ---------------------------------------------------------------------------
\* Failures while a callback is handled

\* the callback data is not of the shape s_<serviceCode>_<shortId>
malformed(data) == ~shaped(data)

\* the texts of the except clauses that a callback can reach
Apologies == {<<MSG_ERROR>>, <<MSG_SINGLE_ERROR>>, <<MSG_ALL_ERROR>>}

\* the Telegram call k of the context raised
raised(l, k) == k \in 1..Len(l.emits) /\ ~l.emits[k].ok

\* the position of a context in which an exception is being handled
InExcept == {"ss_except", "sa_except", "bh_except", "bh_except_reply", "error_handler"}

\* C13 as stated: a malformed callback payload is an unexpected failure: it is
\* caught by the except of button_handler, so what the user is sent after the
\* query is answered is the generic apology of that except; no adapter is
\* invoked.
C13_MalformedIsCaught ==
    \A c \in Contexts :
        LET l == ctx[c]
        IN  (l.caller = "button_handler" /\ malformed(l.data)) =>
                /\ l.calls = <<>>
                /\ (Len(l.emits) >= 2 /\ l.emits[1].ok) =>
                       (l.emits[2].api = "edit_message_text" /\ l.emits[2].text = <<MSG_ERROR>>)

\* what holds of a context that handles a callback
callback_handled(l) ==
    /\ malformed(l.data) =>
           /\ l.calls = <<>> /\ l.reqs = <<>>
           /\ (Len(l.emits) >= 2 /\ l.emits[1].ok) =>
                  /\ l.emits[2].api = "edit_message_text"
                  /\ l.emits[2].text = IF startswith(l.data, "s_") THEN <<MSG_INVALID_REQUEST>>
                                       ELSE <<MSG_UNKNOWN_COMMAND>>
           /\ \A k \in 1..(Len(l.emits) - 1) :
                  (raised(l, k) /\ ~raised(l, k - 1)) =>
                      (l.emits[k + 1].api = "edit_message_text" /\ l.emits[k + 1].text = <<MSG_ERROR>>)
    /\ \A k \in 1..Len(l.emits) :
           raised(l, k) =>
               IF k < Len(l.emits)
               THEN l.emits[k + 1].text \in Apologies
               ELSE \/ l.pc \in InExcept
                    \/ /\ l.pc = "done"
                       /\ k >= 3 /\ raised(l, k - 1) /\ raised(l, k - 2)
                       /\ l.emits[k].api = "reply_text" /\ l.emits[k - 1].api = "reply_text"

\* C13: a malformed callback payload is answered by button_handler itself,
\* without an exception: with the text Invalid request when it starts with s_
\* and has fewer than three parts, with the text Unknown command otherwise; no
\* adapter is invoked for it.  A Telegram call that raises while a callback is
\* handled is always caught: the next thing sent is the apology of an except
\* clause (for a malformed payload the generic one of button_handler, as an
\* edit of the message), and when the edit and the reply of that except raise
\* too, the error handler of the application replies and swallows its own
\* failure.  No step of a callback changes the cache.
C13_CallbackFailuresHandled ==
    /\ [](\A c \in Contexts : ctx[c].caller = "button_handler" => callback_handled(ctx[c]))
    /\ [][(\E c \in Contexts : ctx[c].caller = "button_handler" \/ ctx'[c].caller = "button_handler")
              => url_cache' = url_cache]_vars

\* C13 witness: the payload help is answered, the edit with Unknown command
\* raises, the except of button_handler edits in the generic apology; no
\* adapter was called
C13_Witness ==
    \E c \in Contexts :
        LET l == ctx[c]
        IN  /\ l.caller = "button_handler" /\ l.data = "help" /\ l.pc = "done"
            /\ Len(l.emits) = 3
            /\ l.emits[1].ok /\ ~l.emits[2].ok /\ l.emits[3].ok
            /\ l.emits[2].text = <<MSG_UNKNOWN_COMMAND>>
            /\ l.emits[3].text = <<MSG_ERROR>>
            /\ l.calls = <<>>
            /\ url_cache # <<>>

(***************************************************************************)
(* The status report of the web application.  The Flask routes run beside  *)
(* the bot and read the same config.                                       *)
(***************************************************************************)
\* check_service_status without tinyurl in the count
check_service_status_counts_keys(cfg) ==
    LET status == [bitly |-> cfg.BITLY_TOKEN # "", cuttly |-> cfg.CUTTLY_API # "",
                   gplinks |-> cfg.GPLINKS_API # ""]
    IN  [status |-> status,
         connected_count |-> Cardinality({k \in DOMAIN status : status[k]})]

\* check_service_status(): bool(key) per service that needs a key, and
\* sum(status.values()) + 1, the one being tinyurl
check_service_status(cfg) ==
    LET status == [bitly |-> cfg.BITLY_TOKEN # "", cuttly |-> cfg.CUTTLY_API # "",
                   gplinks |-> cfg.GPLINKS_API # ""]
    IN  [status |-> status,
         connected_count |-> Cardinality({k \in DOMAIN status : status[k]}) + 1]

\* the values datetime.now().isoformat() takes in the model
Timestamps == {"2026-01-01T00:00:00", "2026-01-01T00:00:01"}

\* api_status(): the JSON document of GET /api/status
api_status(cfg, now) ==
    LET services_status == check_service_status(cfg).status
        connected_count == check_service_status(cfg).connected_count
    IN  [status |-> "online",
         timestamp |-> now,
         services |->
             [bitly |-> [connected |-> services_status.bitly, has_key |-> cfg.BITLY_TOKEN # ""],
              tinyurl |-> [connected |-> TRUE, has_key |-> FALSE],
              cuttly |-> [connected |-> services_status.cuttly, has_key |-> cfg.CUTTLY_API # ""],
              gplinks |-> [connected |-> services_status.gplinks, has_key |-> cfg.GPLINKS_API # ""]],
         summary |-> [total_services |-> 4, connected_services |-> connected_count]]

\* GET /api/status is served; the document and the requests made for it (none)
\* are kept as the latest observed call
api_status_request(now) ==
    /\ probe' = [service |-> "api_status", url |-> "", n1 |-> 0, n2 |-> 0, tried |-> "return",
                 outcome |-> Done(Return(api_status(config, now)), <<>>)]
    /\ UNCHANGED <<config, url_cache, memo, ctx, running, puts, last_put>>

\* the web application beside the bot, which takes text messages
NextStatus ==
    \/ \E now \in Timestamps : api_status_request(now)
    \/ \E c \in {1} :
           \/ \E text \in Texts : handle_message(c, text)
           \/ \E ok \in BOOLEAN :
                  \/ handle_message_reply_invalid(c, ok)
                  \/ handle_message_except(c, ok)
                  \/ process_url_reply_invalid(c, ok)
                  \/ process_url_store(c, ok)
                  \/ process_url_reply_menu(c, ok)
                  \/ process_url_except(c, ok)
                  \/ error_handler(c, ok)
           \/ finish(c)

SpecStatus == Init /\ [][NextStatus]_vars

\* the services of the report and the credential of each
ReportedServices == {"bitly", "tinyurl", "cuttly", "gplinks"}
credential_of(service) ==
    CASE service = "bitly" -> config.BITLY_TOKEN
      [] service = "cuttly" -> config.CUTTLY_API
      [] service = "gplinks" -> config.GPLINKS_API

\* what holds of a status document
status_report_right(report) ==
    /\ DOMAIN report.services = ReportedServices
    /\ report.services.tinyurl.connected = TRUE
    /\ \A s \in ReportedServices \ {"tinyurl"} :
           report.services[s].connected = (credential_of(s) # "")
    /\ report.summary.connected_services =
           Cardinality({s \in ReportedServices : report.services[s].connected})
    /\ report.summary.connected_services =
           1 + Cardinality({s \in ReportedServices \ {"tinyurl"} : credential_of(s) # ""})

\* C14: for every setting of the three credentials the status report marks
\* tinyurl connected, marks bitly, cuttly and gplinks connected exactly when
\* the credential is a non-empty string, and gives as connected_services the
\* number of services marked connected, which is 1 plus the number of
\* non-empty credentials.  Computing the report makes no request and changes
\* neither the config, nor the cache, nor any handler's position.
C14_StatusReport ==
    /\ [](probe.service = "api_status" =>
              (status_report_right(probe.outcome.value) /\ probe.outcome.reqs = <<>>))
    /\ [][(probe' # probe /\ probe'.service = "api_status") =>
              UNCHANGED <<config, url_cache, ctx, running, puts, last_put>>]_vars

\* C14 witness: a report computed with two of the three credentials set, while
\* the cache holds a URL and a handler is under way: three services connected
C14_Witness ==
    /\ probe.service = "api_status"
    /\ config.BITLY_TOKEN # "" /\ config.CUTTLY_API = "" /\ config.GPLINKS_API # ""
    /\ probe.outcome.value.summary.connected_services = 3
    /\ probe.outcome.value.services.cuttly.connected = FALSE
    /\ url_cache # <<>>
    /\ ctx[1].pc = "pu_reply_menu"

\* ---------------------------------------------------------------------------
\* The cache is written only after validation

\* the submission the context handles is rejected: /shorten without an
\* argument, a text without the scheme, or a string is_valid_url refuses
rejected(l) ==
    /\ l.caller \in {"handle_message", "shorten"}
    /\ \/ ~memo.valid[l.url]
       \/ l.caller = "handle_message" /\ ~has_http_scheme(l.url)

\* a service menu was shown: a message with buttons
menu_shown(l) == \E k \in 1..Len(l.emits) : l.emits[k].keyboard # <<>>

\* C15: every URL held in url_cache satisfies is_valid_url.  While a
\* submission that validation rejects is handled (a text message or a /shorten
\* command with a string that is refused, or /shorten without an argument) the
\* cache is not written and no service menu is shown.  The cache changes only
\* in the step of process_url that follows a successful validation, and what
\* is written is the validated URL.
C15_CacheHoldsValidatedUrls ==
    /\ [](/\ \A id \in DOMAIN url_cache : memo.valid[url_cache[id]]
          /\ \A c \in Contexts :
                 rejected(ctx[c]) =>
                     (~menu_shown(ctx[c]) /\ ctx[c].pc \notin {"pu_chat_action", "pu_reply_menu"}))
    /\ [][/\ (\E c \in Contexts : rejected(ctx'[c])) => url_cache' = url_cache
          /\ url_cache' # url_cache =>
                 \E c \in Contexts :
                     /\ ctx[c].pc = "pu_chat_action"
                     /\ memo.valid[ctx[c].url]
                     /\ url_cache' = dict_set(url_cache, memo.url_id[ctx[c].url], ctx[c].url)]_vars

\* C15 witness: with a validated URL in the cache, a /shorten command whose
\* argument is refused has been answered with the rejection text and no menu;
\* the cache still holds exactly the earlier URL
C15_Witness ==
    \E c \in Contexts :
        /\ ctx[c].caller = "shorten" /\ ctx[c].url = "a.co" /\ ctx[c].pc = "done"
        /\ Len(ctx[c].emits) = 1
        /\ ctx[c].emits[1].text = <<MSG_INVALID_URL>>
        /\ ctx[c].emits[1].keyboard = <<>>
        /\ url_cache = [id \in {"08fdbc79"} |-> "http://a.co/oqn"]

=============================================================================
